---- MODULE Spec2Model ----
(***************************************************************************)
(* Offline-first synchronization engine of NorthStarGoals.                 *)
(*                                                                         *)
(* services/syncService.ts : session store (localStorage), room client,    *)
(*                           change subscriber, record merger, forceSync   *)
(* components/TodoList.tsx : the orchestrator (mount-time setupSync, the   *)
(*                           debounced push, the visibility flush, create, *)
(*                           join, disconnect, force sync handler)         *)
(*                                                                         *)
(* Every awaited remote operation is split at its await: the call issues   *)
(* the request with the arguments captured at call time, a later step is   *)
(* the server acting together with the continuation of the caller.         *)
(* One clock stands for Date.now() and serverTimestamp().                  *)
(***************************************************************************)
EXTENDS Integers, Sequences, FiniteSets, TLC

\* ------------------------------------------------------------------ bounds
StartTime == 20000
MaxTicks == 1
MaxEdits == 2
MaxInflight == 1
MaxUserActions == 2
MaxEnvEvents == 1
MaxMergeLen == 2

\* ------------------------------------------------------- program constants
CONFLICT_THRESHOLD == 5000
NEWER_MARGIN == 1000

\* --------------------------------------------------------------- universes
Devices == {"A", "B"}
\* The device whose session is explored step by step; the other device acts
\* through OtherDevicePush.
Active == {"A"}
Other == "B"

NoTime == -1
NoId == 0
NoCode == ""
RoomCodes == {"STAR"}
TypedCodes == {"STAR", "star"}

\* code.toUpperCase()
ToUpperIdentity(code) == code

ToUpper(code) == IF code = "star" THEN "STAR" ELSE code

\* crypto.randomUUID(): the n-th identifier generated on device d
GenerateDeviceId(d, n) == (IF d = "A" THEN 100 ELSE 200) + n

\* ----------------------------------------------------------------- records
Rec(i, c, r, v) == [id |-> i, createdAt |-> c, resolvedAt |-> r, rev |-> v]

Snap(t, r, n) == [todos |-> t, routines |-> r, notes |-> n]
EmptySnap == Snap(<<>>, <<>>, <<>>)
\* the data as device A holds it: todo 1 resolved, todo 2 open
SnapA == Snap(<<Rec(2, 3000, NoTime, "a"), Rec(1, 1000, 4000, "a")>>,
              <<Rec(5, 1000, NoTime, "a")>>,
              <<>>)
\* ... and as device B holds it: todo 1 open, todo 2 resolved, routine 5
\* edited, todo 3 and note 7 added
SnapB == Snap(<<Rec(3, 3500, NoTime, "b"), Rec(2, 3000, 4500, "b"),
                Rec(1, 1000, NoTime, "b")>>,
              <<Rec(5, 1000, NoTime, "b")>>,
              <<Rec(7, 2000, NoTime, "b")>>)

Count(s) == Len(s.todos) + Len(s.routines) + Len(s.notes)

\* a || b of JavaScript on optional numbers: undefined and 0 are falsy
OrElse(a, b) == IF a = NoTime \/ a = 0 THEN b ELSE a

\* localItem.resolvedAt || localItem.createdAt || 0
Freshness(r) == OrElse(OrElse(r.resolvedAt, r.createdAt), 0)

HasId(seq, i) == \E k \in 1..Len(seq) : seq[k].id = i
IndexOf(seq, i) == CHOOSE k \in 1..Len(seq) : seq[k].id = i

\* Map.set(item.id, item): a new key is appended, a known key keeps its place
MapSetAppend(seq, item) == Append(seq, item)

MapSet(seq, item) ==
  IF HasId(seq, item.id)
    THEN [seq EXCEPT ![IndexOf(seq, item.id)] = item]
    ELSE Append(seq, item)

RECURSIVE MapFromItems(_, _)
MapFromItems(acc, items) ==
  IF items = <<>> THEN acc
  ELSE MapFromItems(MapSet(acc, Head(items)), Tail(items))

\* the body of localItems.forEach in mergeByIdAndTimestamp
MergeLocalItemSkipsNew(merged, localItem) ==
  IF ~HasId(merged, localItem.id)
    THEN merged
    ELSE IF Freshness(localItem) > Freshness(merged[IndexOf(merged, localItem.id)])
           THEN MapSet(merged, localItem)
           ELSE merged

MergeLocalItemFlipped(merged, localItem) ==
  IF ~HasId(merged, localItem.id)
    THEN MapSet(merged, localItem)
    ELSE IF Freshness(localItem) >= Freshness(merged[IndexOf(merged, localItem.id)])
           THEN MapSet(merged, localItem)
           ELSE merged

MergeLocalItem(merged, localItem) ==
  IF ~HasId(merged, localItem.id)
    THEN MapSet(merged, localItem)
    ELSE IF Freshness(localItem) > Freshness(merged[IndexOf(merged, localItem.id)])
           THEN MapSet(merged, localItem)
           ELSE merged

RECURSIVE MergeLocals(_, _)
MergeLocals(merged, localItems) ==
  IF localItems = <<>> THEN merged
  ELSE MergeLocals(MergeLocalItem(merged, Head(localItems)), Tail(localItems))

mergeByIdAndTimestamp(localItems, remoteItems) ==
  MergeLocals(MapFromItems(<<>>, remoteItems), localItems)

MergeSnap(l, r) ==
  Snap(mergeByIdAndTimestamp(l.todos, r.todos),
       mergeByIdAndTimestamp(l.routines, r.routines),
       mergeByIdAndTimestamp(l.notes, r.notes))


\* ------------------------------------------------------- direction rules
\* setupSync: the branch taken after a successful read of the room
SetupDirectionPushFirst(localCount, remoteCount, localUpdatedAt, remoteUpdatedAt) ==
  LET remoteLooksNewer == remoteUpdatedAt # NoTime /\
        (localUpdatedAt = NoTime \/ remoteUpdatedAt > localUpdatedAt + NEWER_MARGIN)
      localLooksNewer == localUpdatedAt # NoTime /\
        (remoteUpdatedAt = NoTime \/ localUpdatedAt > remoteUpdatedAt + NEWER_MARGIN)
  IN IF localLooksNewer \/ (localCount > 0 /\ remoteCount = 0) THEN "push"
     ELSE IF remoteLooksNewer \/ (remoteCount > 0 /\ localCount = 0) THEN "pull"
     ELSE IF remoteCount > 0 THEN "tiepull"
     ELSE "none"

SetupDirection(localCount, remoteCount, localUpdatedAt, remoteUpdatedAt) ==
  LET remoteLooksNewer == remoteUpdatedAt # NoTime /\
        (localUpdatedAt = NoTime \/ remoteUpdatedAt > localUpdatedAt + NEWER_MARGIN)
      localLooksNewer == localUpdatedAt # NoTime /\
        (remoteUpdatedAt = NoTime \/ localUpdatedAt > remoteUpdatedAt + NEWER_MARGIN)
  IN IF remoteLooksNewer \/ (remoteCount > 0 /\ localCount = 0) THEN "pull"
     ELSE IF localLooksNewer \/ (localCount > 0 /\ remoteCount = 0) THEN "push"
     ELSE IF remoteCount > 0 THEN "tiepull"
     ELSE "none"

Abs(x) == IF x < 0 THEN -x ELSE x

\* x ?? 0 on an optional number
OrZero(x) == IF x = NoTime THEN 0 ELSE x

\* forceSync: the strategy chosen from the two timestamps
ForceDirectionNoWindow(remoteUpdatedAt, localUpdatedAt) ==
  IF remoteUpdatedAt > localUpdatedAt THEN "pull" ELSE "push"

ForceDirectionWideWindow(remoteUpdatedAt, localUpdatedAt) ==
  IF Abs(remoteUpdatedAt - localUpdatedAt) <= 2 * CONFLICT_THRESHOLD THEN "merge"
  ELSE IF remoteUpdatedAt > localUpdatedAt THEN "pull"
  ELSE "push"

ForceDirection(remoteUpdatedAt, localUpdatedAt) ==
  IF Abs(remoteUpdatedAt - localUpdatedAt) < CONFLICT_THRESHOLD THEN "merge"
  ELSE IF remoteUpdatedAt > localUpdatedAt THEN "pull"
  ELSE "push"

\* ------------------------------------------------------------------ state
VARIABLES
  now,            \* the clock (ms)
  ticks,          \* how often the clock advanced
  rooms,          \* syncRooms collection: room code -> document
  ls,             \* localStorage northstar_sync_state, per device
  idGen,          \* identifiers generated and stored so far, per device
  localUpdatedAt, \* localStorage northstar_local_last_updated_at, per device
  local,          \* todos / routines / notes of the component, per device
  comp,           \* the TodoList component: status, refs, debounce timer
  setup,          \* setupSync of the mount effect: where it is suspended
  op,             \* handleEnableSync / handleJoinSync in flight
  fs,             \* forceSync in flight
  fsResult,       \* what the last forceSync returned
  pushes,         \* pushChanges calls whose setDoc is in flight (in order)
  subs,           \* live onSnapshot listeners of the device
  pend,           \* listeners with an undelivered snapshot
  ref,            \* syncUnsubscribeRef.current
  edits,          \* local edits made so far
  used,           \* user actions and outside events (writes, faults) so far
  hist,           \* history: what the session has observed so far
  ev,             \* history: the step taken last
  mIn,            \* the record merger applied on its own: inputs
  mOut            \* ... and result

vars == <<now, ticks, rooms, ls, idGen, localUpdatedAt, local, comp, setup, op,
          fs, fsResult, pushes, subs, pend, ref, edits, used, hist, ev, mIn, mOut>>

sysVars == <<now, ticks, rooms, ls, idGen, localUpdatedAt, local, comp, setup, op,
             fs, fsResult, pushes, subs, pend, ref, edits, used, hist, ev>>

\* ----------------------------------------------------------- remote store
NoDoc == [exists |-> FALSE, todos |-> <<>>, routines |-> <<>>, notes |-> <<>>,
          lastUpdated |-> NoTime, deviceId |-> NoId]

Doc(data, t, writer) ==
  [exists |-> TRUE, todos |-> data.todos, routines |-> data.routines,
   notes |-> data.notes, lastUpdated |-> t, deviceId |-> writer]

DataOf(doc) == Snap(doc.todos, doc.routines, doc.notes)

\* getDoc(doc(db, 'syncRooms', code)): a path nobody wrote holds no document
RoomAt(code) == IF code \in DOMAIN rooms THEN rooms[code] ELSE NoDoc

\* joinSyncRoom returns the document: the read succeeded and it exists
FoundAlways(ok, doc) == ok

Found(ok, doc) == ok /\ doc.exists

\* ---------------------------------------------------------- session store
DefaultState(d) ==
  [saved |-> FALSE, syncCode |-> NoCode, deviceId |-> GenerateDeviceId(d, idGen[d]),
   enabled |-> FALSE, lastSyncedAt |-> NoTime]

\* getSyncState: the stored blob, or a default with a newly generated id
getSyncState(d) == IF ls[d].saved THEN ls[d] ELSE DefaultState(d)

\* getDeviceId: state.deviceId is always truthy, so nothing is saved here
getDeviceId(d) == getSyncState(d).deviceId

isSyncEnabled(d) == getSyncState(d).enabled

\* saveSyncState: the blob as it is stored
Stored(st) == [st EXCEPT !.saved = TRUE]

\* a generated identifier is used up once it is stored or handed to a caller
\* that keeps it
IdGenAfterSave(d) == IF ls[d].saved THEN idGen[d] ELSE idGen[d] + 1

\* -------------------------------------------------------------- component
NoTimer == [set |-> FALSE, data |-> EmptySnap]
Timer(data) == [set |-> TRUE, data |-> data]

NoSub == [code |-> NoCode, st |-> [saved |-> FALSE, syncCode |-> NoCode,
          deviceId |-> NoId, enabled |-> FALSE, lastSyncedAt |-> NoTime],
          guarded |-> FALSE, zombie |-> FALSE]

IdleSetup == [pc |-> "idle", code |-> NoCode]
IdleOp == [pc |-> "idle", code |-> NoCode, data |-> EmptySnap, deviceId |-> NoId]
IdleFs == [pc |-> "idle", st |-> NoSub.st, localData |-> EmptySnap,
           branch |-> "none", payload |-> EmptySnap]
NoResult == [outcome |-> "none", success |-> FALSE, hasData |-> FALSE,
             data |-> EmptySnap, deviceId |-> NoId]

NewComp(enabled) ==
  [mounted |-> TRUE,
   status |-> IF enabled THEN "connected" ELSE "disconnected",
   isRemoteUpdate |-> FALSE,
   isSyncInitializing |-> FALSE,
   hasRemoteBaseline |-> FALSE,
   timer |-> NoTimer]

NoComp == [NewComp(FALSE) EXCEPT !.mounted = FALSE]

\* what a session has observed: a successful read of the room (or its own
\* create), the room reported missing, and how many recreate writes it issued
NoHist == [read |-> FALSE, missing |-> FALSE, recreates |-> 0, cleared |-> FALSE]

Ev(name, d, tag) ==
  [name |-> name, dev |-> d, tag |-> tag, lc |-> 0, rc |-> 0, delta |-> 0,
   code |-> NoCode]
\* a step the history does not tell apart
NoEv == Ev("none", "A", "none")
\* a step that took a direction decision: the counts and remote - local
EvDir(name, d, tag, lc, rc, delta) ==
  [name |-> name, dev |-> d, tag |-> tag, lc |-> lc, rc |-> rc, delta |-> delta,
   code |-> NoCode]
\* a step that was handed a room code
EvCode(name, d, tag, code) == [Ev(name, d, tag) EXCEPT !.code = code]

Push(kind, st, data, hadRead) ==
  [kind |-> kind, st |-> st, data |-> data, hadRead |-> hadRead]

\* generateId(): the identifier of the n-th record created on device d
NewRecordId(d, n) == (IF d = "A" THEN 10 ELSE 20) + n

\* data.lastUpdated?.toMillis?.() ?? Date.now()
OrNow(t) == IF t = NoTime THEN now ELSE t

\* subscribeToChanges: the listener it attaches, NoSub when it returns null
ListenerNever(d, st, guarded) == NoSub

Listener(d, st, guarded) ==
  IF ~st.enabled \/ st.syncCode = NoCode THEN NoSub
  ELSE [code |-> st.syncCode, st |-> st, guarded |-> guarded,
        zombie |-> ~comp[d].mounted]

\* the debounced push effect, run after a render that changed the collections
DebounceEffectNoLatch(c, enabled, data) ==
  IF c.isRemoteUpdate \/ c.isSyncInitializing \/ ~enabled
    THEN NoTimer
    ELSE Timer(data)

DebounceEffectKeepsPending(c, enabled, data) ==
  IF c.timer.set THEN c.timer
  ELSE IF c.isRemoteUpdate \/ c.isSyncInitializing \/ ~enabled \/ ~c.hasRemoteBaseline
    THEN NoTimer
    ELSE Timer(data)

DebounceEffect(c, enabled, data) ==
  IF c.isRemoteUpdate \/ c.isSyncInitializing \/ ~enabled \/ ~c.hasRemoteBaseline
    THEN NoTimer
    ELSE Timer(data)

\* applyRemoteData as the component sees it: the flag is raised, and the
\* re-render that follows runs the debounce effect again, whose cleanup clears
\* the pending timer
ApplyToCompNoFlag(c, enabled, data) ==
  [c EXCEPT !.timer = DebounceEffect(c, enabled, data)]

ApplyToComp(c, enabled, data) ==
  LET flagged == [c EXCEPT !.isRemoteUpdate = TRUE]
  IN [flagged EXCEPT !.timer = DebounceEffect(flagged, enabled, data)]

\* the snapshot callback's test for a document written by another device
IsForeignAlways(doc, st) == doc.exists

IsForeignNever(doc, st) == FALSE

IsForeign(doc, st) == doc.exists /\ doc.deviceId # st.deviceId

\* onRoomMissing with the latch not yet set: the latch is set before the push
RoomMissingLatchNever(c) == c

RoomMissingLatch(c) == [c EXCEPT !.hasRemoteBaseline = TRUE]

\* every listener on a room has a snapshot to deliver after a write to it
Notified(code) == [x \in Devices |-> pend[x] \cup {s \in subs[x] : s.code = code}]

\* --------------------------------------------------------------- initially
InitTimes == {StartTime - 10000, StartTime - 2000}
InitSyncedAt == StartTime - 10000

InitSessions(d) ==
  {[saved |-> FALSE, syncCode |-> NoCode, deviceId |-> NoId, enabled |-> FALSE,
    lastSyncedAt |-> NoTime]}
  \cup {[saved |-> TRUE, syncCode |-> "STAR", deviceId |-> GenerateDeviceId(d, 0),
         enabled |-> TRUE, lastSyncedAt |-> InitSyncedAt]}

\* the room as earlier sessions left it: absent, written by the other device,
\* or last written by this device
InitDocs ==
  {NoDoc}
  \cup {Doc(s, t, GenerateDeviceId(Other, 0)) : s \in {EmptySnap, SnapB},
                                                t \in InitTimes}
  \cup {Doc(SnapA, InitSyncedAt, GenerateDeviceId("A", 0))}

InitSys ==
  /\ now = StartTime
  /\ ticks = 0
  /\ rooms \in [RoomCodes -> InitDocs]
  /\ \E sa \in InitSessions("A") :
       ls = [d \in Devices |->
               IF d \in Active THEN sa
               ELSE [saved |-> TRUE, syncCode |-> "STAR",
                     deviceId |-> GenerateDeviceId(d, 0), enabled |-> TRUE,
                     lastSyncedAt |-> StartTime - 2000]]
  /\ idGen = [d \in Devices |-> IF ls[d].saved THEN 1 ELSE 0]
  /\ localUpdatedAt = [d \in Devices |-> NoTime]
  /\ \E la \in {EmptySnap, SnapA} :
       local = [d \in Devices |-> IF d \in Active THEN la ELSE SnapB]
  /\ comp = [d \in Devices |-> NoComp]
  /\ setup = [d \in Devices |-> IdleSetup]
  /\ op = [d \in Devices |-> IdleOp]
  /\ fs = [d \in Devices |-> IdleFs]
  /\ fsResult = [d \in Devices |-> NoResult]
  /\ pushes = [d \in Devices |-> <<>>]
  /\ subs = [d \in Devices |-> {}]
  /\ pend = [d \in Devices |-> {}]
  /\ ref = [d \in Devices |-> NoSub]
  /\ edits = [d \in Devices |-> 0]
  /\ used = [acts |-> 0, env |-> 0]
  /\ hist = [d \in Devices |-> NoHist]
  /\ ev = NoEv

NotMerged == [done |-> FALSE, items |-> <<>>, swapped |-> <<>>,
              redone |-> FALSE, again |-> <<>>]

Init ==
  /\ InitSys
  /\ mIn = <<<<>>, <<>>>>
  /\ mOut = NotMerged

\* ------------------------------------------------------------- environment
TickSteps == {2000, 10000}

Tick ==
  /\ ticks < MaxTicks
  /\ \E step \in TickSteps : now' = now + step
  /\ ticks' = ticks + 1
  /\ ev' = NoEv
  /\ UNCHANGED <<mIn, mOut, rooms, ls, idGen, localUpdatedAt, local, comp, setup, op, fs,
                 fsResult, pushes, subs, pend, ref, edits, used, hist>>

\* the other device's pushChanges reaching the room
OtherDevicePush ==
  /\ ls[Other].enabled
  /\ rooms[ls[Other].syncCode] # Doc(local[Other], now, ls[Other].deviceId)
  /\ rooms' = [rooms EXCEPT ![ls[Other].syncCode] =
                 Doc(local[Other], now, ls[Other].deviceId)]
  /\ pend' = Notified(ls[Other].syncCode)
  /\ ev' = NoEv
  /\ used.env < MaxEnvEvents
  /\ used' = [used EXCEPT !.env = @ + 1]
  /\ UNCHANGED <<mIn, mOut, now, ticks, ls, idGen, localUpdatedAt, local, comp, setup, op, fs,
                 fsResult, pushes, subs, ref, edits, hist>>

\* the room document deleted from outside the engine
RoomDeleted ==
  \E code \in RoomCodes :
    /\ rooms[code].exists
    /\ rooms' = [rooms EXCEPT ![code] = NoDoc]
    /\ pend' = Notified(code)
    /\ ev' = NoEv
    /\ used.env < MaxEnvEvents
    /\ used' = [used EXCEPT !.env = @ + 1]
    /\ UNCHANGED <<mIn, mOut, now, ticks, ls, idGen, localUpdatedAt, local, comp, setup, op,
                   fs, fsResult, pushes, subs, ref, edits, hist>>


\* a remote call may fail with a transport fault while faults are left
Outcomes == IF used.env < MaxEnvEvents THEN {TRUE, FALSE} ELSE {TRUE}
UsedAfter(ok) == IF ok THEN used ELSE [used EXCEPT !.env = @ + 1]

\* ----------------------------------------------------- mount and setupSync
\* No continuation of an earlier instance of the component is still pending.
Quiet(d) ==
  /\ setup[d].pc = "idle"
  /\ op[d].pc = "idle"
  /\ fs[d].pc = "idle"
  /\ pushes[d] = <<>>

\* First render and the mount effects: the three persistence effects stamp
\* the local-updated time, setupSync runs up to its await of joinSyncRoom.
Mount(d) ==
  /\ ~comp[d].mounted
  /\ Quiet(d)
  /\ LET st == getSyncState(d) IN
       /\ comp' = [comp EXCEPT ![d] =
            [NewComp(st.enabled) EXCEPT
               !.isSyncInitializing = st.enabled /\ st.syncCode # NoCode,
               !.status = IF ~st.enabled THEN "disconnected"
                          ELSE IF st.syncCode # NoCode THEN "connecting"
                          ELSE "error"]]
       /\ setup' = [setup EXCEPT ![d] =
            IF st.enabled /\ st.syncCode # NoCode
              THEN [pc |-> "joining", code |-> st.syncCode]
              ELSE IdleSetup]
  /\ localUpdatedAt' = [localUpdatedAt EXCEPT ![d] = now]
  /\ hist' = [hist EXCEPT ![d] = NoHist]
  /\ ev' = NoEv
  /\ UNCHANGED <<mIn, mOut, now, ticks, rooms, ls, idGen, local, op, fs, fsResult, pushes,
                 subs, pend, ref, edits, used>>

\* joinSyncRoom resolves inside setupSync, and setupSync runs on to its next
\* await (the push of the push branch) or to its end.
SetupJoinDone(d, ok) ==
  /\ setup[d].pc = "joining"
  /\ LET code == ToUpper(setup[d].code)
         doc == RoomAt(code)
         found == Found(ok, doc)
         st == IF found
                 THEN Stored([syncCode |-> code, deviceId |-> getDeviceId(d),
                              enabled |-> TRUE, lastSyncedAt |-> now, saved |-> TRUE])
                 ELSE getSyncState(d)
         lc == Count(local[d])
         rc == Count(DataOf(doc))
         dir == IF found
                  THEN SetupDirection(lc, rc, localUpdatedAt[d], doc.lastUpdated)
                  ELSE IF ok THEN "absent" ELSE "failed"
         sub == Listener(d, st, TRUE)
     IN
       /\ ls' = [ls EXCEPT ![d] = IF found THEN st ELSE @]
       /\ idGen' = [idGen EXCEPT ![d] = IF found THEN IdGenAfterSave(d) ELSE @]
       /\ IF ~comp[d].mounted
            THEN \* cancelled: return
              /\ setup' = [setup EXCEPT ![d] = IdleSetup]
              /\ ev' = Ev("SetupJoinDone", d, "cancelled")
              /\ UNCHANGED <<comp, local, localUpdatedAt, pushes, subs, pend, ref, hist>>
            ELSE IF dir = "push"
            THEN \* await pushChanges(local)
              /\ Len(pushes[d]) < MaxInflight
              /\ pushes' = [pushes EXCEPT ![d] =
                   Append(@, Push("setup", st, local[d], TRUE))]
              /\ setup' = [setup EXCEPT ![d].pc = "pushing"]
              /\ comp' = [comp EXCEPT ![d].hasRemoteBaseline = TRUE]
              /\ hist' = [hist EXCEPT ![d].read = TRUE]
              /\ ev' = EvDir("SetupJoinDone", d, dir, lc, rc,
                             doc.lastUpdated - localUpdatedAt[d])
              /\ UNCHANGED <<local, localUpdatedAt, subs, pend, ref>>
            ELSE
              /\ setup' = [setup EXCEPT ![d] = IdleSetup]
              /\ comp' = [comp EXCEPT ![d] =
                   [(IF dir \in {"pull", "tiepull"}
                       THEN ApplyToComp([@ EXCEPT !.hasRemoteBaseline = TRUE],
                                        st.enabled, DataOf(doc))
                       ELSE @)
                      EXCEPT !.hasRemoteBaseline = @ \/ found,
                             !.isSyncInitializing = FALSE,
                             !.status = IF sub # NoSub THEN "connected" ELSE "error"]]
              /\ local' = [local EXCEPT ![d] =
                   IF dir \in {"pull", "tiepull"} THEN DataOf(doc) ELSE @]
              /\ localUpdatedAt' = [localUpdatedAt EXCEPT ![d] =
                   IF dir \in {"pull", "tiepull"} THEN OrNow(doc.lastUpdated) ELSE @]
              /\ subs' = [subs EXCEPT ![d] = IF sub # NoSub THEN @ \cup {sub} ELSE @]
              /\ pend' = [pend EXCEPT ![d] = IF sub # NoSub THEN @ \cup {sub} ELSE @]
              /\ ref' = [ref EXCEPT ![d] = IF sub # NoSub THEN sub ELSE @]
              /\ hist' = [hist EXCEPT ![d].read = @ \/ found]
              /\ ev' = IF found
                         THEN EvDir("SetupJoinDone", d, dir, lc, rc,
                                    doc.lastUpdated - localUpdatedAt[d])
                         ELSE Ev("SetupJoinDone", d, dir)
              /\ UNCHANGED pushes
  /\ used' = UsedAfter(ok)
  /\ UNCHANGED <<mIn, mOut, now, ticks, rooms, op, fs, fsResult, edits>>

\* ------------------------------------------------------------ pushChanges
\* the setDoc of a pushChanges call reaches the room (or fails), then the
\* session blob captured at call time is saved with a new lastSyncedAt
RoomsAfterPush(p, ok) ==
  IF ok THEN [rooms EXCEPT ![p.st.syncCode] = Doc(p.data, now, p.st.deviceId)]
  ELSE rooms

StateAfterPush(d, p, ok) ==
  IF ok THEN Stored([p.st EXCEPT !.lastSyncedAt = now]) ELSE ls[d]

\* the push of setupSync's push branch resolves; setupSync subscribes and ends
SetupPushDone(d, ok) ==
  /\ setup[d].pc = "pushing"
  /\ pushes[d] # <<>>
  /\ Head(pushes[d]).kind = "setup"
  /\ LET p == Head(pushes[d])
         st == StateAfterPush(d, p, ok)
         sub == Listener(d, st, TRUE)
         noted == IF ok THEN Notified(p.st.syncCode) ELSE pend
     IN
       /\ rooms' = RoomsAfterPush(p, ok)
       /\ ls' = [ls EXCEPT ![d] = st]
       /\ pushes' = [pushes EXCEPT ![d] = Tail(@)]
       /\ setup' = [setup EXCEPT ![d] = IdleSetup]
       /\ subs' = [subs EXCEPT ![d] = IF sub # NoSub THEN @ \cup {sub} ELSE @]
       /\ pend' = [noted EXCEPT ![d] = IF sub # NoSub THEN @ \cup {sub} ELSE @]
       /\ ref' = [ref EXCEPT ![d] =
            IF sub # NoSub /\ comp[d].mounted THEN sub ELSE @]
       /\ comp' = [comp EXCEPT ![d] =
            IF @.mounted
              THEN [@ EXCEPT !.isSyncInitializing = FALSE,
                             !.status = IF sub # NoSub THEN "connected" ELSE "error"]
              ELSE @]
       /\ ev' = Ev("SetupPushDone", d, IF ok THEN "wrote" ELSE "failed")
  /\ used' = UsedAfter(ok)
  /\ UNCHANGED <<mIn, mOut, now, ticks, idGen, localUpdatedAt, local, op, fs, fsResult,
                 edits, hist>>

\* any other pushChanges call resolves
PushDone(d, ok) ==
  /\ pushes[d] # <<>>
  /\ Head(pushes[d]).kind # "setup"
  /\ LET p == Head(pushes[d]) IN
       /\ rooms' = RoomsAfterPush(p, ok)
       /\ ls' = [ls EXCEPT ![d] = StateAfterPush(d, p, ok)]
       /\ pend' = IF ok THEN Notified(p.st.syncCode) ELSE pend
       /\ ev' = Ev("PushDone", d, IF ok THEN p.kind ELSE "failed")
  /\ pushes' = [pushes EXCEPT ![d] = Tail(@)]
  /\ used' = UsedAfter(ok)
  /\ UNCHANGED <<mIn, mOut, now, ticks, idGen, localUpdatedAt, local, comp, setup, op, fs,
                 fsResult, subs, ref, edits, hist>>


\* ------------------------------------------------------ change subscriber
\* One snapshot of the room reaches listener s of device d: the callback of
\* subscribeToChanges and the handler the component passed to it.
Deliver(d, s) ==
  /\ s \in pend[d]
  /\ LET doc == rooms[s.code]
         missing == ~doc.exists
         foreign == IsForeign(doc, s.st)
         live == ~s.zombie
         recreate == missing /\ live /\ ~comp[d].hasRemoteBaseline
         st == getSyncState(d)
         issues == recreate /\ st.enabled /\ st.syncCode # NoCode
     IN
       /\ issues => Len(pushes[d]) < MaxInflight
       /\ pend' = [pend EXCEPT ![d] = @ \ {s}]
       /\ comp' = [comp EXCEPT ![d] =
            IF recreate THEN RoomMissingLatch(@)
            ELSE IF foreign /\ live
              THEN ApplyToComp([@ EXCEPT !.hasRemoteBaseline = TRUE],
                               s.st.enabled, DataOf(doc))
            ELSE @]
       /\ local' = [local EXCEPT ![d] = IF foreign /\ live THEN DataOf(doc) ELSE @]
       /\ localUpdatedAt' = [localUpdatedAt EXCEPT ![d] =
            IF foreign /\ (live \/ ~s.guarded) THEN OrNow(doc.lastUpdated) ELSE @]
       /\ ls' = [ls EXCEPT ![d] =
            IF foreign THEN Stored([s.st EXCEPT !.lastSyncedAt = now]) ELSE @]
       /\ pushes' = [pushes EXCEPT ![d] =
            IF issues THEN Append(@, Push("recover", st, local[d], hist[d].read))
            ELSE @]
       /\ hist' = [hist EXCEPT ![d] =
            [@ EXCEPT !.read = @ \/ (foreign /\ live),
                      !.missing = @ \/ (missing /\ live),
                      !.recreates = IF issues /\ @ < 2 THEN @ + 1 ELSE @]]
       /\ ev' = Ev("Deliver", d,
                   IF missing THEN (IF issues THEN "recreate" ELSE "missing")
                   ELSE IF foreign THEN (IF live THEN "applied" ELSE "stale")
                   ELSE "echo")
  /\ UNCHANGED <<mIn, mOut, now, ticks, rooms, idGen, setup, op, fs, fsResult, subs, ref, edits, used>>

\* --------------------------------------------------------- local mutations
\* addTodo, the re-render, the persistence effect and the debounce effect
AddTodo(d) ==
  /\ comp[d].mounted
  /\ edits[d] < MaxEdits
  /\ LET data == [local[d] EXCEPT !.todos =
                    <<Rec(NewRecordId(d, edits[d]), now, NoTime, "n")>> \o @]
     IN
       /\ local' = [local EXCEPT ![d] = data]
       /\ comp' = [comp EXCEPT ![d].timer =
            DebounceEffect(comp[d], isSyncEnabled(d), data)]
  /\ localUpdatedAt' = [localUpdatedAt EXCEPT ![d] =
       IF comp[d].isRemoteUpdate THEN @ ELSE now]
  /\ edits' = [edits EXCEPT ![d] = @ + 1]
  /\ ev' = Ev("AddTodo", d, IF comp[d].timer.set THEN "resched" ELSE "sched")
  /\ used.acts < MaxUserActions
  /\ used' = [used EXCEPT !.acts = @ + 1]
  /\ UNCHANGED <<mIn, mOut, now, ticks, rooms, ls, idGen, setup, op, fs, fsResult, pushes,
                 subs, pend, ref, hist>>

\* the 150 ms timeout of applyRemoteData
RemoteFlagTimeout(d) ==
  /\ comp[d].mounted
  /\ comp[d].isRemoteUpdate
  /\ comp' = [comp EXCEPT ![d].isRemoteUpdate = FALSE]
  /\ ev' = NoEv
  /\ UNCHANGED <<mIn, mOut, now, ticks, rooms, ls, idGen, localUpdatedAt, local, setup, op,
                 fs, fsResult, pushes, subs, pend, ref, edits, used, hist>>

\* pushChanges up to its await: NoPush when it returns false at once
IssuedPush(d, kind, data) ==
  LET st == getSyncState(d) IN
    IF ~st.enabled \/ st.syncCode = NoCode THEN <<>>
    ELSE <<Push(kind, st, data, hist[d].read)>>

\* the 500 ms debounce timeout fires and calls pushChanges
DebounceFire(d) ==
  /\ comp[d].mounted
  /\ comp[d].timer.set
  /\ LET issued == IssuedPush(d, "debounce", comp[d].timer.data) IN
       /\ Len(pushes[d]) + Len(issued) <= MaxInflight
       /\ pushes' = [pushes EXCEPT ![d] = @ \o issued]
       /\ ev' = Ev("DebounceFire", d, IF issued # <<>> THEN "issued" ELSE "dropped")
  /\ comp' = [comp EXCEPT ![d].timer = NoTimer]
  /\ UNCHANGED <<mIn, mOut, now, ticks, rooms, ls, idGen, localUpdatedAt, local, setup, op,
                 fs, fsResult, subs, pend, ref, edits, used, hist>>

\* handleVisibilityChange with document.visibilityState = 'hidden'
VisibilityHidden(d) ==
  /\ comp[d].mounted
  /\ LET allowed == ~comp[d].isSyncInitializing /\ comp[d].hasRemoteBaseline
                    /\ isSyncEnabled(d)
         issued == IF allowed THEN IssuedPush(d, "flush", local[d]) ELSE <<>>
     IN
       /\ Len(pushes[d]) + Len(issued) <= MaxInflight
       /\ pushes' = [pushes EXCEPT ![d] = @ \o issued]
       /\ ev' = Ev("VisibilityHidden", d, IF issued # <<>> THEN "issued" ELSE "dropped")
  /\ used.acts < MaxUserActions
  /\ used' = [used EXCEPT !.acts = @ + 1]
  /\ UNCHANGED <<mIn, mOut, now, ticks, rooms, ls, idGen, localUpdatedAt, local, comp, setup,
                 op, fs, fsResult, subs, pend, ref, edits, hist>>


\* --------------------------------------------------------------- forceSync
Result(outcome, success, hasData, data, writer) ==
  [outcome |-> outcome, success |-> success, hasData |-> hasData,
   data |-> data, deviceId |-> writer]

\* handleForceSync and forceSync up to the await of getDoc
ForceSyncStart(d) ==
  /\ comp[d].mounted
  /\ fs[d].pc = "idle"
  /\ LET st == getSyncState(d) IN
       IF ~st.enabled \/ st.syncCode = NoCode
         THEN /\ fsResult' = [fsResult EXCEPT ![d] =
                   Result("disabled", FALSE, FALSE, EmptySnap, NoId)]
              /\ fs' = fs
         ELSE /\ fs' = [fs EXCEPT ![d] =
                   [pc |-> "reading", st |-> st, localData |-> local[d],
                    branch |-> "none", payload |-> EmptySnap]]
              /\ fsResult' = [fsResult EXCEPT ![d] = NoResult]
  /\ ev' = NoEv
  /\ used.acts < MaxUserActions
  /\ used' = [used EXCEPT !.acts = @ + 1]
  /\ UNCHANGED <<mIn, mOut, now, ticks, rooms, ls, idGen, localUpdatedAt, local, comp, setup,
                 op, pushes, subs, pend, ref, edits, hist>>

\* getDoc resolves: the strategy is chosen; pull returns at once, the other
\* branches run up to the await of their setDoc
ForceSyncRead(d, ok) ==
  /\ fs[d].pc = "reading"
  /\ LET st == fs[d].st
         doc == rooms[st.syncCode]
         remoteUpdatedAt == OrZero(doc.lastUpdated)
         localAt == OrZero(st.lastSyncedAt)
         dir == IF ~ok THEN "error"
                ELSE IF ~doc.exists THEN "create"
                ELSE ForceDirection(remoteUpdatedAt, localAt)
     IN
       /\ fs' = [fs EXCEPT ![d] =
            IF dir \in {"error", "pull"} THEN IdleFs
            ELSE [@ EXCEPT !.pc = "writing", !.branch = dir,
                           !.payload = IF dir = "merge"
                                         THEN MergeSnap(fs[d].localData, DataOf(doc))
                                         ELSE fs[d].localData]]
       /\ fsResult' = [fsResult EXCEPT ![d] =
            IF dir = "error" THEN Result("error", FALSE, FALSE, EmptySnap, NoId)
            ELSE IF dir = "pull"
              THEN Result("pull", TRUE, TRUE, DataOf(doc), doc.deviceId)
            ELSE @]
       /\ ls' = [ls EXCEPT ![d] =
            IF dir = "pull" THEN Stored([st EXCEPT !.lastSyncedAt = now]) ELSE @]
       /\ ev' = IF dir \in {"error", "create"} THEN Ev("ForceSyncRead", d, dir)
                ELSE EvDir("ForceSyncRead", d, dir, Count(fs[d].localData),
                           Count(DataOf(doc)), remoteUpdatedAt - localAt)
  /\ used' = UsedAfter(ok)
  /\ UNCHANGED <<mIn, mOut, now, ticks, rooms, idGen, localUpdatedAt, local, comp, setup, op,
                 pushes, subs, pend, ref, edits, hist>>

\* the setDoc of the create, merge or push branch resolves
ForceSyncWrite(d, ok) ==
  /\ fs[d].pc = "writing"
  /\ LET st == fs[d].st
         data == fs[d].payload
     IN
       /\ rooms' = IF ok THEN [rooms EXCEPT ![st.syncCode] = Doc(data, now, st.deviceId)]
                   ELSE rooms
       /\ pend' = IF ok THEN Notified(st.syncCode) ELSE pend
       /\ ls' = [ls EXCEPT ![d] =
            IF ok THEN Stored([st EXCEPT !.lastSyncedAt = now]) ELSE @]
       /\ fsResult' = [fsResult EXCEPT ![d] =
            IF ~ok THEN Result("error", FALSE, FALSE, EmptySnap, NoId)
            ELSE IF fs[d].branch = "merge"
              THEN Result("merge", TRUE, TRUE, data, st.deviceId)
            ELSE Result(fs[d].branch, TRUE, FALSE, EmptySnap, NoId)]
       /\ ev' = Ev("ForceSyncWrite", d, IF ok THEN fs[d].branch ELSE "failed")
  /\ fs' = [fs EXCEPT ![d] = IdleFs]
  /\ used' = UsedAfter(ok)
  /\ UNCHANGED <<mIn, mOut, now, ticks, idGen, localUpdatedAt, local, comp, setup, op, pushes,
                 subs, ref, edits, hist>>

\* ------------------------------------------------ create, join, disconnect
\* the settings view shows its connected panel (with the disconnect button)
ConnectedPanel(d) ==
  /\ comp[d].status = "connected" \/ isSyncEnabled(d)
  /\ getSyncState(d).syncCode # NoCode

\* ... and offers create and join otherwise
Offered(d) ==
  /\ comp[d].mounted
  /\ op[d].pc = "idle"
  /\ ~ConnectedPanel(d)

\* handleEnableSync and createSyncRoom up to the await of setDoc
CreateStart(d, code) ==
  /\ Offered(d)
  /\ op' = [op EXCEPT ![d] =
       [pc |-> "creating", code |-> ToUpper(code), data |-> local[d],
        deviceId |-> getDeviceId(d)]]
  /\ idGen' = [idGen EXCEPT ![d] = IdGenAfterSave(d)]
  /\ comp' = [comp EXCEPT ![d].status = "connecting"]
  /\ ev' = NoEv
  /\ used.acts < MaxUserActions
  /\ used' = [used EXCEPT !.acts = @ + 1]
  /\ UNCHANGED <<mIn, mOut, now, ticks, rooms, ls, localUpdatedAt, local, setup, fs,
                 fsResult, pushes, subs, pend, ref, edits, hist>>

\* handleEnableSync after the await: the status it sets
CreateStatusAlways(ok) == "connected"

CreateStatus(ok) == IF ok THEN "connected" ELSE "error"

CreateDone(d, ok) ==
  /\ op[d].pc = "creating"
  /\ LET o == op[d]
         st == IF ok
                 THEN [saved |-> TRUE, syncCode |-> o.code, deviceId |-> o.deviceId,
                       enabled |-> TRUE, lastSyncedAt |-> now]
                 ELSE ls[d]
         sub == IF ok THEN Listener(d, st, FALSE) ELSE NoSub
         noted == IF ok THEN Notified(o.code) ELSE pend
     IN
       /\ rooms' = IF ok THEN [rooms EXCEPT ![o.code] = Doc(o.data, now, o.deviceId)]
                   ELSE rooms
       /\ ls' = [ls EXCEPT ![d] = st]
       /\ subs' = [subs EXCEPT ![d] = IF sub # NoSub THEN @ \cup {sub} ELSE @]
       /\ pend' = [noted EXCEPT ![d] = IF sub # NoSub THEN @ \cup {sub} ELSE @]
       /\ ref' = [ref EXCEPT ![d] =
            IF sub # NoSub /\ comp[d].mounted THEN sub ELSE @]
       /\ comp' = [comp EXCEPT ![d] =
            IF ~@.mounted THEN @
            ELSE [@ EXCEPT !.hasRemoteBaseline = @ \/ ok, !.status = CreateStatus(ok)]]
       /\ hist' = [hist EXCEPT ![d].read = @ \/ (ok /\ comp[d].mounted)]
       /\ ev' = Ev("CreateDone", d, IF ok THEN "created" ELSE "failed")
  /\ op' = [op EXCEPT ![d] = IdleOp]
  /\ used' = UsedAfter(ok)
  /\ UNCHANGED <<mIn, mOut, now, ticks, idGen, localUpdatedAt, local, setup, fs, fsResult,
                 pushes, edits>>

\* handleJoinSync and joinSyncRoom up to the await of getDoc
JoinStart(d, code) ==
  /\ Offered(d)
  /\ op' = [op EXCEPT ![d] =
       [pc |-> "joining", code |-> code, data |-> EmptySnap, deviceId |-> NoId]]
  /\ comp' = [comp EXCEPT ![d].status = "connecting"]
  /\ ev' = NoEv
  /\ used.acts < MaxUserActions
  /\ used' = [used EXCEPT !.acts = @ + 1]
  /\ UNCHANGED <<mIn, mOut, now, ticks, rooms, ls, idGen, localUpdatedAt, local, setup, fs,
                 fsResult, pushes, subs, pend, ref, edits, hist>>

JoinDone(d, ok) ==
  /\ op[d].pc = "joining"
  /\ LET code == ToUpper(op[d].code)
         doc == RoomAt(code)
         found == Found(ok, doc)
         st == IF found
                 THEN [saved |-> TRUE, syncCode |-> code, deviceId |-> getDeviceId(d),
                       enabled |-> TRUE, lastSyncedAt |-> now]
                 ELSE ls[d]
         sub == IF found THEN Listener(d, st, FALSE) ELSE NoSub
     IN
       /\ ls' = [ls EXCEPT ![d] = st]
       /\ idGen' = [idGen EXCEPT ![d] = IF found THEN IdGenAfterSave(d) ELSE @]
       /\ subs' = [subs EXCEPT ![d] = IF sub # NoSub THEN @ \cup {sub} ELSE @]
       /\ pend' = [pend EXCEPT ![d] = IF sub # NoSub THEN @ \cup {sub} ELSE @]
       /\ ref' = [ref EXCEPT ![d] =
            IF sub # NoSub /\ comp[d].mounted THEN sub ELSE @]
       /\ comp' = [comp EXCEPT ![d] =
            IF ~@.mounted THEN @
            ELSE IF found
              THEN [ApplyToComp([@ EXCEPT !.hasRemoteBaseline = TRUE],
                                st.enabled, DataOf(doc))
                      EXCEPT !.status = "connected"]
            ELSE [@ EXCEPT !.status = "disconnected"]]
       /\ local' = [local EXCEPT ![d] =
            IF found /\ comp[d].mounted THEN DataOf(doc) ELSE @]
       /\ localUpdatedAt' = [localUpdatedAt EXCEPT ![d] =
            IF found THEN OrNow(doc.lastUpdated) ELSE @]
       /\ hist' = [hist EXCEPT ![d].read = @ \/ (found /\ comp[d].mounted)]
       /\ ev' = [EvCode("JoinDone", d,
                        IF found THEN "joined" ELSE IF ok THEN "notfound" ELSE "failed",
                        op[d].code)
                  EXCEPT !.lc = Count(local[d]), !.rc = Count(DataOf(doc))]
  /\ op' = [op EXCEPT ![d] = IdleOp]
  /\ used' = UsedAfter(ok)
  /\ UNCHANGED <<mIn, mOut, now, ticks, rooms, setup, fs, fsResult, pushes, edits>>

\* disconnectSync: the stored state with the flag and the code cleared
DisabledKeepsCode(st) == Stored([st EXCEPT !.enabled = FALSE])

Disabled(st) == Stored([st EXCEPT !.enabled = FALSE, !.syncCode = NoCode])

\* handleDisconnectSync called right after a call of it on the same device
DisableCall(d) ==
  IF ev.name \in {"Disconnect", "ClearAll"} /\ ev.dev = d THEN "again" ELSE "first"

\* the disconnect button: handleDisconnectSync and disconnectSync
Disconnect(d) ==
  /\ comp[d].mounted
  /\ ConnectedPanel(d)
  /\ subs' = [subs EXCEPT ![d] = @ \ {ref[d]}]
  /\ pend' = [pend EXCEPT ![d] = @ \ {ref[d]}]
  /\ ref' = [ref EXCEPT ![d] = NoSub]
  /\ ls' = [ls EXCEPT ![d] = Disabled(getSyncState(d))]
  /\ idGen' = [idGen EXCEPT ![d] = IdGenAfterSave(d)]
  /\ comp' = [comp EXCEPT ![d].status = "disconnected"]
  /\ ev' = Ev("Disconnect", d, DisableCall(d))
  /\ used.acts < MaxUserActions
  /\ used' = [used EXCEPT !.acts = @ + 1]
  /\ UNCHANGED <<mIn, mOut, now, ticks, rooms, localUpdatedAt, local, setup, op, fs, fsResult,
                 pushes, edits, hist>>

\* clearAll: handleDisconnectSync, then the three collections are emptied and
\* the re-render runs the persistence effects and the debounce effect
ClearAll(d) ==
  /\ comp[d].mounted
  /\ subs' = [subs EXCEPT ![d] = @ \ {ref[d]}]
  /\ pend' = [pend EXCEPT ![d] = @ \ {ref[d]}]
  /\ ref' = [ref EXCEPT ![d] = NoSub]
  /\ ls' = [ls EXCEPT ![d] = Disabled(getSyncState(d))]
  /\ idGen' = [idGen EXCEPT ![d] = IdGenAfterSave(d)]
  /\ local' = [local EXCEPT ![d] = EmptySnap]
  /\ localUpdatedAt' = [localUpdatedAt EXCEPT ![d] =
       IF comp[d].isRemoteUpdate THEN @ ELSE now]
  /\ comp' = [comp EXCEPT ![d].status = "disconnected",
                          ![d].timer = DebounceEffect(comp[d], FALSE, EmptySnap)]
  /\ ev' = Ev("ClearAll", d, DisableCall(d))
  /\ hist' = [hist EXCEPT ![d].cleared =
       @ \/ (Count(local[d]) > 0 /\ comp[d].status = "connected")]
  /\ used.acts < MaxUserActions
  /\ used' = [used EXCEPT !.acts = @ + 1]
  /\ UNCHANGED <<mIn, mOut, now, ticks, rooms, setup, op, fs, fsResult, pushes, edits>>

\* the component is torn down: the cleanups of the mount effect and of the
\* debounce effect; listeners it does not hold in its ref stay attached
Zombie(s) == [s EXCEPT !.zombie = TRUE]

Unmount(d) ==
  /\ comp[d].mounted
  /\ comp' = [comp EXCEPT ![d] = NoComp]
  /\ subs' = [subs EXCEPT ![d] = {Zombie(s) : s \in @ \ {ref[d]}}]
  /\ pend' = [pend EXCEPT ![d] = {Zombie(s) : s \in @ \ {ref[d]}}]
  /\ ref' = [ref EXCEPT ![d] = NoSub]
  /\ ev' = NoEv
  /\ used.acts < MaxUserActions
  /\ used' = [used EXCEPT !.acts = @ + 1]
  /\ UNCHANGED <<mIn, mOut, now, ticks, rooms, ls, idGen, localUpdatedAt, local, setup, op,
                 fs, fsResult, pushes, edits, hist>>

\* ---------------------------------------------------------- specification
DeviceStep(d) ==
  \/ Mount(d)
  \/ \E ok \in Outcomes : SetupJoinDone(d, ok)
  \/ \E ok \in Outcomes : SetupPushDone(d, ok)
  \/ \E ok \in Outcomes : PushDone(d, ok)
  \/ \E s \in pend[d] : Deliver(d, s)
  \/ AddTodo(d)
  \/ RemoteFlagTimeout(d)
  \/ DebounceFire(d)
  \/ VisibilityHidden(d)
  \/ ForceSyncStart(d)
  \/ \E ok \in Outcomes : ForceSyncRead(d, ok)
  \/ \E ok \in Outcomes : ForceSyncWrite(d, ok)
  \/ \E code \in RoomCodes : CreateStart(d, code)
  \/ \E ok \in Outcomes : CreateDone(d, ok)
  \/ \E code \in TypedCodes : JoinStart(d, code)
  \/ \E ok \in Outcomes : JoinDone(d, ok)
  \/ Disconnect(d)
  \/ ClearAll(d)
  \/ Unmount(d)

Next ==
  \/ \E d \in Active : DeviceStep(d)
  \/ Tick
  \/ OtherDevicePush
  \/ RoomDeleted

Spec == Init /\ [][Next]_vars

\* The sync path alone, with the settings panel, forceSync, the page's
\* visibility and the teardown left untouched: the connect phase, local
\* edits, the debounced push, the listener and the other device's writes.
LiveStep(d) ==
  \/ Mount(d)
  \/ \E ok \in Outcomes : SetupJoinDone(d, ok)
  \/ \E ok \in Outcomes : SetupPushDone(d, ok)
  \/ \E ok \in Outcomes : PushDone(d, ok)
  \/ \E s \in pend[d] : Deliver(d, s)
  \/ AddTodo(d)
  \/ RemoteFlagTimeout(d)
  \/ DebounceFire(d)

NextLive ==
  \/ \E d \in Active : LiveStep(d)
  \/ Tick
  \/ OtherDevicePush

\* The browser's scheduling: a debounce timeout that stays set fires, a
\* write that was sent is answered, and the listener is called with every
\* snapshot that is waiting for it.
Fairness ==
  \A d \in Active :
    /\ WF_vars(DebounceFire(d))
    /\ WF_vars(\E ok \in Outcomes : PushDone(d, ok))
    /\ WF_vars(\E s \in pend[d] : Deliver(d, s))

SpecLive == Init /\ [][NextLive]_vars /\ Fairness


\* ------------------------------------------------ the record merger alone
\* Records of one kind as they can be stored: creation and resolution times
\* are absent or Date.now() values (positive); a resolved record may carry a
\* resolution time below its creation time (clock set back).
\* one identifier more than a list is long, so that two full lists may differ
MergeIds == 1..(MaxMergeLen + 1)
Stamps == {<<NoTime, NoTime>>, <<1000, NoTime>>, <<1000, 2000>>, <<2000, 1000>>}
MergeRecs(side) == {Rec(i, t[1], t[2], side) : i \in MergeIds, t \in Stamps}

UniqueIds(seq) == \A i, j \in 1..Len(seq) : seq[i].id = seq[j].id => i = j

\* well-formed lists of at most MaxMergeLen records
MergeLists(side) ==
  {seq \in UNION {[1..n -> MergeRecs(side)] : n \in 0..MaxMergeLen} : UniqueIds(seq)}

InitMerge ==
  /\ now = StartTime
  /\ ticks = 0
  /\ rooms = [c \in RoomCodes |-> NoDoc]
  /\ ls = [d \in Devices |-> NoSub.st]
  /\ idGen = [d \in Devices |-> 0]
  /\ localUpdatedAt = [d \in Devices |-> NoTime]
  /\ local = [d \in Devices |-> EmptySnap]
  /\ comp = [d \in Devices |-> NoComp]
  /\ setup = [d \in Devices |-> IdleSetup]
  /\ op = [d \in Devices |-> IdleOp]
  /\ fs = [d \in Devices |-> IdleFs]
  /\ fsResult = [d \in Devices |-> NoResult]
  /\ pushes = [d \in Devices |-> <<>>]
  /\ subs = [d \in Devices |-> {}]
  /\ pend = [d \in Devices |-> {}]
  /\ ref = [d \in Devices |-> NoSub]
  /\ edits = [d \in Devices |-> 0]
  /\ used = [acts |-> 0, env |-> 0]
  /\ hist = [d \in Devices |-> NoHist]
  /\ ev = NoEv
  /\ mIn \in MergeLists("local") \X MergeLists("remote")
  /\ mOut = NotMerged

\* mergeByIdAndTimestamp(localItems, remoteItems) is called
MergeStep ==
  /\ ~mOut.done
  /\ mOut' = [mOut EXCEPT !.done = TRUE,
                          !.items = mergeByIdAndTimestamp(mIn[1], mIn[2]),
                          !.swapped = mergeByIdAndTimestamp(mIn[2], mIn[1])]
  /\ UNCHANGED <<mIn, sysVars>>

\* mergeByIdAndTimestamp(localItems, merged) is called on the earlier result
MergeAgainStep ==
  /\ mOut.done
  /\ ~mOut.redone
  /\ mOut' = [mOut EXCEPT !.redone = TRUE,
                          !.again = mergeByIdAndTimestamp(mIn[1], mOut.items)]
  /\ UNCHANGED <<mIn, sysVars>>

NextMerge == MergeStep \/ MergeAgainStep

SpecMerge == InitMerge /\ [][NextMerge]_vars


\* ================================================================== claims
\* ----------------------------------------------------------------------- C1
\* the session of d has read the room (join, setupSync's read, a snapshot of
\* another device's write), created it, or was told by its subscription that
\* the document does not exist
Based(d) == hist[d].read \/ hist[d].missing

\* C1: no push of the local snapshot (debounced push, visibility flush,
\* room-missing recovery) is in flight or scheduled unless the session has
\* completed a read of the room through join, the one-shot read or a
\* subscription delivery (the "missing" delivery included), or its own create;
\* a flush or a timer firing before that is dropped, also while sync is
\* enabled.
C1_NoPushBeforeBaseline ==
  \A d \in Active :
    /\ \A k \in 1..Len(pushes[d]) :
         pushes[d][k].kind \in {"debounce", "flush", "recover"} => Based(d)
    /\ comp[d].timer.set => Based(d)
    /\ (ev.dev = d /\ ev.name \in {"VisibilityHidden", "DebounceFire"} /\ ~Based(d))
         => ev.tag = "dropped" /\ pushes[d] = <<>>

\* a flush was attempted with sync enabled, the connect phase over and nothing
\* read yet, and it was dropped
C1_Witness ==
  \E d \in Active :
    /\ ev.name = "VisibilityHidden" /\ ev.dev = d /\ ev.tag = "dropped"
    /\ comp[d].mounted /\ isSyncEnabled(d) /\ ~comp[d].isSyncInitializing
    /\ ~Based(d)
    /\ rooms[getSyncState(d).syncCode].exists

\* ----------------------------------------------------------------------- C2
\* setupSync has just taken its decision on device d with the room found
SetupDecided(d) ==
  /\ ev.name = "SetupJoinDone" /\ ev.dev = d
  /\ ev.tag \in {"pull", "push", "tiepull", "none"}

\* C2: on enable with a stored code, local collections all empty and a room
\* holding records, whatever the two timestamps are, setupSync pulls: no write
\* is issued, and when it has connected the local collections are the room's.
C2_EmptyLocalPulls ==
  \A d \in Active :
    (SetupDecided(d) /\ ev.lc = 0 /\ ev.rc > 0) =>
      /\ ev.tag = "pull"
      /\ pushes[d] = <<>>
      /\ setup[d].pc = "idle"
      /\ comp[d].status = "connected"
      /\ local[d] = DataOf(rooms[ls[d].syncCode])

\* ... reached with a local timestamp that looks newer than the room's
C2_Witness ==
  \E d \in Active :
    /\ SetupDecided(d) /\ ev.lc = 0 /\ ev.rc > 0
    /\ ev.delta < 0 - NEWER_MARGIN
    /\ local[d] = SnapB

\* ----------------------------------------------------------------------- C3
\* the steps in which a write of device d reaches the room
WriteSteps == {"SetupPushDone", "PushDone", "ForceSyncWrite", "CreateDone"}

\* C3: every write of a device to the room (create, push, recovery, forceSync)
\* carries an id generated on that device, the one its session holds once the
\* write has completed and the one its listeners compare against; a snapshot
\* carrying the subscribing device's id changes neither the local collections
\* nor the local-updated time.
C3_WritesCarryIdEchoIgnored ==
  [][\A d \in Active :
       /\ (ev'.name \in WriteSteps /\ ev'.dev = d /\ ev'.tag # "failed") =>
            /\ rooms'[ls'[d].syncCode].exists
            /\ rooms'[ls'[d].syncCode].deviceId = ls'[d].deviceId
            /\ rooms'[ls'[d].syncCode].deviceId \in {GenerateDeviceId(d, n) : n \in 0..idGen'[d]}
            /\ \A s \in subs'[d] : s.st.deviceId = ls'[d].deviceId
       /\ (ev'.name = "Deliver" /\ ev'.dev = d) =>
            \A c \in RoomCodes :
              (rooms[c].exists /\ rooms[c].deviceId = ls[d].deviceId
               /\ \E s \in pend[d] \ pend'[d] : s.code = c)
                => local'[d] = local[d] /\ localUpdatedAt'[d] = localUpdatedAt[d]
  ]_vars

\* the snapshot of the device's own recovery, push or create came back to its
\* live listener while the device held other data than the room
C3_Witness ==
  \E d \in Active :
    /\ ev.name = "Deliver" /\ ev.dev = d /\ ev.tag = "echo"
    /\ comp[d].mounted
    /\ rooms[ls[d].syncCode].deviceId = ls[d].deviceId
    /\ local[d] # DataOf(rooms[ls[d].syncCode])

\* ----------------------------------------------------------------------- C4
\* C4: in one session the room-missing notifications trigger at most one
\* recreate write, and none once the latch is satisfied (a recreate is only
\* issued by a session that has read nothing and seen no "missing" before).
C4_RecreateAtMostOnce ==
  \A d \in Active :
    /\ hist[d].recreates <= 1
    /\ \A k \in 1..Len(pushes[d]) :
         pushes[d][k].kind = "recover" => ~pushes[d][k].hadRead
    /\ (ev.name = "Deliver" /\ ev.dev = d /\ ev.tag = "recreate") =>
         hist[d].recreates = 1 /\ ~hist[d].read

\* a second "missing" notification arrived after the recreate and wrote nothing
C4_Witness ==
  \E d \in Active :
    /\ ev.name = "Deliver" /\ ev.dev = d /\ ev.tag = "missing"
    /\ comp[d].mounted /\ isSyncEnabled(d)
    /\ hist[d].recreates = 1
    /\ pushes[d] = <<>>
    /\ ~rooms[getSyncState(d).syncCode].exists

\* ----------------------------------------------------------------------- C5
\* forceSync has just chosen its strategy on device d with the room found
ForceDecided(d) ==
  /\ ev.name = "ForceSyncRead" /\ ev.dev = d
  /\ ev.tag \in {"merge", "pull", "push"}

\* C5: with the room's lastUpdated 10000 ms above the device's timestamp,
\* setupSync and forceSync both pull: the room's snapshot is the result and no
\* write to the room is issued.
C5_RemoteNewerPulls ==
  \A d \in Active :
    /\ (SetupDecided(d) /\ ev.delta = 2 * CONFLICT_THRESHOLD) =>
         /\ ev.tag = "pull"
         /\ pushes[d] = <<>> /\ setup[d].pc = "idle"
         /\ local[d] = DataOf(rooms[ls[d].syncCode])
    /\ (ForceDecided(d) /\ ev.delta = 2 * CONFLICT_THRESHOLD) =>
         /\ ev.tag = "pull"
         /\ fs[d].pc = "idle"
         /\ fsResult[d].outcome = "pull" /\ fsResult[d].success
         /\ fsResult[d].hasData
         /\ fsResult[d].data = DataOf(rooms[ls[d].syncCode])

\* forceSync met a room written 10000 ms after the last synchronization while
\* the device held records of its own, and returned the room's snapshot
C5_Witness ==
  \E d \in Active :
    /\ ForceDecided(d) /\ ev.delta = 2 * CONFLICT_THRESHOLD
    /\ ev.lc > 0 /\ ev.rc > 0
    /\ fsResult[d].data = SnapB

\* ----------------------------------------------------------------------- C6
\* C6: forceSync on an existing room whose lastUpdated is less than 5000 ms
\* from the device's last-synced time merges the todos, routines and notes of
\* the snapshot it was called with and of the room, each kind on its own with
\* the record merger, writes exactly these three merged lists to the room and
\* returns them.
C6_ForceSyncMerges ==
  [][\A d \in Active :
       /\ (fs[d].pc = "reading" /\ ev'.name = "ForceSyncRead" /\ ev'.dev = d
           /\ ev'.tag \in {"merge", "pull", "push"}
           /\ Abs(ev'.delta) < CONFLICT_THRESHOLD) =>
            /\ ev'.tag = "merge"
            /\ fs'[d].pc = "writing"
            /\ fs'[d].payload.todos =
                 mergeByIdAndTimestamp(fs[d].localData.todos,
                                       rooms[fs[d].st.syncCode].todos)
            /\ fs'[d].payload.routines =
                 mergeByIdAndTimestamp(fs[d].localData.routines,
                                       rooms[fs[d].st.syncCode].routines)
            /\ fs'[d].payload.notes =
                 mergeByIdAndTimestamp(fs[d].localData.notes,
                                       rooms[fs[d].st.syncCode].notes)
       /\ (fs[d].pc = "writing" /\ fs[d].branch = "merge"
           /\ ev'.name = "ForceSyncWrite" /\ ev'.dev = d /\ ev'.tag # "failed") =>
            /\ DataOf(rooms'[fs[d].st.syncCode]) = fs[d].payload
            /\ fsResult'[d].outcome = "merge" /\ fsResult'[d].success
            /\ fsResult'[d].hasData
            /\ fsResult'[d].data = fs[d].payload
  ]_vars

\* a merge of two differing snapshots was written: the room and the result
\* hold records of both sides
C6_Witness ==
  \E d \in Active :
    /\ ev.name = "ForceSyncWrite" /\ ev.dev = d /\ ev.tag = "merge"
    /\ fsResult[d].data = DataOf(rooms[ls[d].syncCode])
    /\ fsResult[d].data = MergeSnap(SnapA, SnapB)
    /\ fsResult[d].data # SnapA /\ fsResult[d].data # SnapB

\* ----------------------------------------------------------------------- C7
\* C7: on enable with a stored code, the room found, records on both sides and
\* the two update times less than 5000 ms apart, setupSync merges: the merged
\* collections are what it writes to the room and what it applies locally.
C7_SetupMerges ==
  [][\A d \in Active :
       (setup[d].pc = "joining" /\ ev'.name = "SetupJoinDone" /\ ev'.dev = d
        /\ ev'.tag \in {"pull", "push", "tiepull", "none"}
        /\ ev'.lc > 0 /\ ev'.rc > 0
        /\ Abs(ev'.delta) < CONFLICT_THRESHOLD) =>
         LET merged == MergeSnap(local[d], DataOf(rooms[ToUpper(setup[d].code)]))
         IN \/ /\ pushes'[d] # <<>>
               /\ pushes'[d][Len(pushes'[d])].data = merged
            \/ /\ local'[d] = merged
               /\ DataOf(rooms'[ToUpper(setup[d].code)]) = merged
  ]_vars

\* ----------------------------------------------------------------------- C8
\* C8: when a force sync that resolved to pull or merge has completed with
\* success, the local collections are the snapshot forceSync returned.
C8_ForceResultApplied ==
  \A d \in Active :
    (ev.name \in {"ForceSyncRead", "ForceSyncWrite"} /\ ev.dev = d
     /\ fs[d].pc = "idle"
     /\ fsResult[d].outcome \in {"pull", "merge"} /\ fsResult[d].success) =>
      local[d] = fsResult[d].data

\* ----------------------------------------------------------------------- C9
\* C9: forceSync outside the 5000 ms window, with the local collections all
\* empty and records in the room, pulls and issues no write, also when the
\* device's timestamp is the newer one.
C9_ForceEmptyLocalPulls ==
  \A d \in Active :
    (ForceDecided(d) /\ Abs(ev.delta) >= CONFLICT_THRESHOLD
     /\ ev.lc = 0 /\ ev.rc > 0) =>
      /\ ev.tag = "pull"
      /\ fs[d].pc = "idle"
      /\ fsResult[d].data = DataOf(rooms[ls[d].syncCode])

\* ---------------------------------------------------------------------- C10
\* freshness as it is stated: the resolved time if present, else the creation
\* time, else 0
StatedFreshness(r) ==
  IF r.resolvedAt # NoTime THEN r.resolvedAt
  ELSE IF r.createdAt # NoTime THEN r.createdAt
  ELSE 0

\* the records of seq that carry identifier i
WithId(seq, i) == {k \in 1..Len(seq) : seq[k].id = i}

\* C10: for well-formed lists and every id present in both, merge(local,
\* remote) holds exactly one record with that id, and it is the local record
\* when the local freshness is strictly greater than the remote freshness and
\* the remote record otherwise (also on exact ties).
C10_MergePicksStrictlyFresher ==
  mOut.done =>
    \A i \in 1..Len(mIn[1]), j \in 1..Len(mIn[2]) :
      mIn[1][i].id = mIn[2][j].id =>
        /\ Cardinality(WithId(mOut.items, mIn[1][i].id)) = 1
        /\ \A k \in WithId(mOut.items, mIn[1][i].id) :
             mOut.items[k] =
               IF StatedFreshness(mIn[1][i]) > StatedFreshness(mIn[2][j])
                 THEN mIn[1][i] ELSE mIn[2][j]

\* a merge was computed over lists sharing an id with a tie, an id where the
\* local record is fresher and the merge kept each as stated
C10_Witness ==
  /\ mOut.done
  /\ \E i, i2 \in 1..Len(mIn[1]), j, j2 \in 1..Len(mIn[2]) :
       /\ mIn[1][i].id = mIn[2][j].id
       /\ StatedFreshness(mIn[1][i]) = StatedFreshness(mIn[2][j])
       /\ StatedFreshness(mIn[1][i]) > 0
       /\ mIn[2][j] \in {mOut.items[k] : k \in 1..Len(mOut.items)}
       /\ mIn[1][i2].id = mIn[2][j2].id
       /\ StatedFreshness(mIn[1][i2]) > StatedFreshness(mIn[2][j2])
       /\ mIn[1][i2] \in {mOut.items[k] : k \in 1..Len(mOut.items)}

\* ---------------------------------------------------------------------- C11
\* the ids of a record list
IdsOf(seq) == {seq[k].id : k \in 1..Len(seq)}

\* C11: the ids of merge(A, B) are the union of the ids of A and of B, each
\* id once; merge(A, B) and merge(B, A) hold the same ids.
C11_MergeKeepsEveryId ==
  mOut.done =>
    /\ IdsOf(mOut.items) = IdsOf(mIn[1]) \cup IdsOf(mIn[2])
    /\ UniqueIds(mOut.items)
    /\ IdsOf(mOut.swapped) = IdsOf(mOut.items)
    /\ UniqueIds(mOut.swapped)

\* merged lists with an id on the local side only, one on the remote side
\* only and one on both
C11_Witness ==
  /\ mOut.done
  /\ IdsOf(mIn[1]) \ IdsOf(mIn[2]) # {}
  /\ IdsOf(mIn[2]) \ IdsOf(mIn[1]) # {}
  /\ IdsOf(mIn[1]) \cap IdsOf(mIn[2]) # {}
  /\ Len(mOut.items) = Cardinality(IdsOf(mIn[1]) \cup IdsOf(mIn[2]))

\* ---------------------------------------------------------------------- C12
\* how many records of seq carry identifier i and freshness f
Copies(seq, i, f) ==
  Cardinality({k \in 1..Len(seq) : seq[k].id = i /\ Freshness(seq[k]) = f})

\* C12: merge(A, merge(A, B)) holds the same records as merge(A, B), compared
\* by id and freshness.
C12_MergeIdempotent ==
  mOut.redone =>
    \A i \in MergeIds, f \in {0} \cup {t[k] : t \in Stamps, k \in 1..2} :
      Copies(mOut.again, i, f) = Copies(mOut.items, i, f)

\* merged again after a merge that took one record from each side
C12_Witness ==
  /\ mOut.redone
  /\ \E k, l \in 1..Len(mOut.items) :
       mOut.items[k].rev = "local" /\ mOut.items[l].rev = "remote"
  /\ \E i \in 1..Len(mIn[1]), j \in 1..Len(mIn[2]) :
       mIn[1][i].id = mIn[2][j].id /\ Freshness(mIn[1][i]) > Freshness(mIn[2][j])
  /\ mOut.again = mOut.items

\* C13: a join typed in any upper/lower-case variant of an existing room's
\* code, whose read is answered, returns that room's document: the device's
\* collections become exactly the room's records whatever it held before,
\* the stored code is the upper-case form, sync is enabled and the status
\* becomes connected.
C13_JoinAnyCaseReadsRoom ==
  [][\A d \in Active :
       (/\ op[d].pc = "joining"
        /\ op[d].code \in TypedCodes
        /\ rooms["STAR"].exists
        /\ comp[d].mounted
        /\ ev'.name = "JoinDone" /\ ev'.dev = d /\ ev'.tag # "failed")
       => /\ ev'.tag = "joined"
          /\ local'[d] = DataOf(rooms["STAR"])
          /\ ls'[d].saved /\ ls'[d].enabled /\ ls'[d].syncCode = "STAR"
          /\ comp'[d].status = "connected"]_vars

\* a join typed in lower case replaced a non-empty local collection by the
\* room's different one
C13_Witness ==
  /\ ev.name = "JoinDone" /\ ev.tag = "joined" /\ ev.code = "star"
  /\ ev.lc > 0 /\ ev.lc # ev.rc
  /\ local[ev.dev] = DataOf(rooms["STAR"])
  /\ ls[ev.dev].syncCode = "STAR"
  /\ comp[ev.dev].status = "connected"

\* C14: a join whose room document does not exist is answered with nothing:
\* the stored session, the device-id generator, the local collections, the
\* remote store and the set of open subscriptions stay as they were, and the
\* status ends disconnected.
C14_JoinMissingRoomChangesNothing ==
  [][\A d \in Active :
       (/\ op[d].pc = "joining"
        /\ ~rooms["STAR"].exists
        /\ ev'.name = "JoinDone" /\ ev'.dev = d)
       => /\ ev'.tag # "joined"
          /\ ls'[d] = ls[d] /\ idGen'[d] = idGen[d]
          /\ local'[d] = local[d] /\ localUpdatedAt'[d] = localUpdatedAt[d]
          /\ rooms' = rooms
          /\ subs'[d] = subs[d] /\ ref'[d] = ref[d]
          /\ (comp[d].mounted => comp'[d].status = "disconnected")]_vars

\* a join of a missing room was answered "not found" on a device that holds
\* records, and no subscription is open
C14_Witness ==
  /\ ev.name = "JoinDone" /\ ev.tag = "notfound"
  /\ ~rooms["STAR"].exists
  /\ ev.lc > 0 /\ Count(local[ev.dev]) = ev.lc
  /\ subs[ev.dev] = {}
  /\ ~isSyncEnabled(ev.dev)
  /\ comp[ev.dev].status = "disconnected"

\* A device connected to room STAR through the listener its component holds,
\* with no connect phase, panel operation or forceSync under way.
Connected(d) ==
  /\ comp[d].mounted /\ ~comp[d].isSyncInitializing /\ comp[d].hasRemoteBaseline
  /\ setup[d] = IdleSetup /\ op[d] = IdleOp /\ fs[d] = IdleFs
  /\ getSyncState(d).enabled /\ getSyncState(d).syncCode = "STAR"
  /\ ref[d] # NoSub /\ ref[d] \in subs[d] /\ ref[d].code = "STAR"

\* the room holds what the other device has, written by the other device
WrittenByOther ==
  /\ rooms["STAR"].exists
  /\ rooms["STAR"].deviceId = ls[Other].deviceId
  /\ DataOf(rooms["STAR"]) = local[Other]

\* the room holds what device d has, written by d
WrittenBy(d) ==
  /\ rooms["STAR"].exists
  /\ rooms["STAR"].deviceId = getDeviceId(d)
  /\ DataOf(rooms["STAR"]) = local[d]

Budgets == [acts : 0..MaxUserActions, env : 0..MaxEnvEvents]

\* C15: with both devices connected to one room, (writer) an edit whose
\* debounce timer is pending is written to the room, and (reader) a write of
\* the other device that waits at the listener is delivered and makes the
\* local collections equal the writer's - unless a further user action, a
\* fault or a deletion of the room intervenes.
C15_EditReachesOtherDevice ==
  \A u \in Budgets :
    /\ (/\ Connected("A") /\ used = u
        /\ comp["A"].timer.set /\ comp["A"].timer.data = local["A"]
        /\ pushes["A"] = <<>> /\ pend["A"] = {})
         ~> (WrittenBy("A") \/ used # u)
    /\ (/\ Connected("A") /\ used = u
        /\ ~comp["A"].timer.set /\ pushes["A"] = <<>>
        /\ WrittenByOther /\ ref["A"] \in pend["A"]
        /\ local["A"] # local[Other])
         ~> (local["A"] = local[Other] \/ used # u)

\* the listener of the connected device has just applied the other device's
\* write, and the collections of the two devices are equal
C15_Witness ==
  /\ ev.name = "Deliver" /\ ev.dev = "A" /\ ev.tag = "applied"
  /\ Connected("A") /\ WrittenByOther
  /\ local["A"] = local[Other]
  /\ Count(local["A"]) > 0

\* C16: disabling sync (the disconnect button, or the disconnect that "clear
\* all" starts with) closes the listener the component holds, stores
\* enabled = false and no room code, keeps a stored device id, leaves the
\* room unchanged, leaves the local collections unchanged when it is the
\* disconnect button, and sets the status disconnected; a call that follows
\* another call changes none of these.
C16_DisableClosesAndIsIdempotent ==
  [][\A d \in Active :
       (ev'.name \in {"Disconnect", "ClearAll"} /\ ev'.dev = d)
       => /\ ref'[d] = NoSub
          /\ ref[d] \notin subs'[d] /\ ref[d] \notin pend'[d]
          /\ ls'[d].saved /\ ~ls'[d].enabled /\ ls'[d].syncCode = NoCode
          /\ (ls[d].saved => ls'[d].deviceId = ls[d].deviceId)
          /\ rooms' = rooms
          /\ (ev'.name = "Disconnect" => local' = local)
          /\ comp'[d].status = "disconnected"
          /\ (ev'.tag = "again" =>
                /\ ls' = ls /\ idGen' = idGen
                /\ subs' = subs /\ pend' = pend /\ ref' = ref
                /\ comp'[d].status = comp[d].status)]_vars

\* a second call was made right after the disconnect button had closed the
\* listener of a connected device
C16_Witness ==
  /\ ev.name = "ClearAll" /\ ev.tag = "again"
  /\ hist[ev.dev].read
  /\ ls[ev.dev].saved /\ ~ls[ev.dev].enabled /\ ls[ev.dev].syncCode = NoCode
  /\ rooms["STAR"].exists
  /\ ref[ev.dev] = NoSub

\* sync was disabled on the device and has not been enabled since
Off(d) == ls[d].saved /\ ~ls[d].enabled /\ ls[d].syncCode = NoCode

Completions ==
  {"SetupJoinDone", "SetupPushDone", "PushDone", "ForceSyncRead", "ForceSyncWrite"}

\* C17: once sync is disabled or the component is torn down, the completion
\* of an operation that was in flight (the connect-phase read, a push, a
\* force sync) changes neither the stored session, nor the local
\* collections, nor the status, and attaches no listener.
C17_CompletionAfterDisableIsNoOp ==
  [][\A d \in Active :
       (/\ ev'.name \in Completions /\ ev'.dev = d
        /\ (Off(d) \/ ~comp[d].mounted))
       => /\ ls'[d] = ls[d]
          /\ local'[d] = local[d]
          /\ comp'[d].status = comp[d].status
          /\ subs'[d] = subs[d]]_vars

\* C18: on enable with a stored room code, when the initial read of the room
\* fails in transport, the status becomes error, and the stored session keeps
\* the room code and the enabled flag.
C18_ReadFailureIsError ==
  [][\A d \in Active :
       (/\ setup[d].pc = "joining" /\ comp[d].mounted
        /\ ls[d].enabled /\ ls[d].syncCode = setup[d].code
        /\ ev'.name = "SetupJoinDone" /\ ev'.dev = d /\ ev'.tag = "failed")
       => /\ comp'[d].status = "error"
          /\ ls'[d].enabled /\ ls'[d].syncCode = ls[d].syncCode]_vars

\* steps in which applyRemoteData ran on device d
Applies(e, d) ==
  /\ e.dev = d
  /\ \/ e.name = "Deliver" /\ e.tag = "applied"
     \/ e.name = "JoinDone" /\ e.tag = "joined"
     \/ e.name = "SetupJoinDone" /\ e.tag \in {"pull", "tiepull"}

\* C19: a step that applies a remote snapshot (a listener's delivery, a join,
\* the pull of the connect phase) leaves no debounce timer set and issues no
\* push, and a debounce timer is only ever scheduled by a step of the user;
\* so without user actions an applied snapshot is never written back. (Hiding
\* the page is a user action: its flush writes whatever the device holds.)
C19_AppliedSnapshotIsNotPushedBack ==
  [][\A d \in Active :
       /\ (Applies(ev', d) /\ comp[d].mounted)
            => (~comp'[d].timer.set /\ pushes'[d] = pushes[d])
       /\ (comp'[d].timer.set /\ comp'[d].timer # comp[d].timer)
            => used'.acts = used.acts + 1]_vars

\* the listener of a connected device, past its connect phase and with its
\* baseline latch set, has just replaced the local collections by a remote
\* snapshot: only the remote-update flag keeps the debounce effect quiet
C19_Witness ==
  /\ ev.name = "Deliver" /\ ev.tag = "applied" /\ ev.dev = "A"
  /\ Connected("A")
  /\ comp["A"].isRemoteUpdate
  /\ ~comp["A"].timer.set /\ pushes["A"] = <<>>
  /\ local["A"] = DataOf(rooms["STAR"]) /\ Count(local["A"]) > 0

\* C20: the one debounce timer a device may have pending carries the latest
\* local collections; an edit made while it is pending cancels it without
\* sending anything and, on a device whose sync is enabled and that is not
\* applying a snapshot, schedules its own; when the timer fires it is gone
\* and at most one push, of
\* exactly those collections, is issued - a payload that was replaced is
\* never sent.
C20_OnePendingPushLatestPayload ==
  [][\A d \in Active :
       /\ comp'[d].timer.set => comp'[d].timer.data = local'[d]
       /\ (ev'.name = "AddTodo" /\ ev'.dev = d /\ ev'.tag = "resched")
            => /\ pushes'[d] = pushes[d] /\ rooms' = rooms
               /\ (isSyncEnabled(d) /\ ~comp[d].isRemoteUpdate
                   /\ ~comp[d].isSyncInitializing) => comp'[d].timer.set
       /\ (ev'.name = "DebounceFire" /\ ev'.dev = d)
            => /\ ~comp'[d].timer.set
               /\ local'[d] = local[d]
               /\ IF ev'.tag = "issued"
                    THEN /\ Len(pushes'[d]) = Len(pushes[d]) + 1
                         /\ pushes'[d][Len(pushes'[d])].kind = "debounce"
                         /\ pushes'[d][Len(pushes'[d])].data = local[d]
                    ELSE pushes'[d] = pushes[d]]_vars

\* a second edit has just replaced the pending timer of the first: both new
\* records are in the pending payload, and the first edit alone was never
\* sent nor written
C20_Witness ==
  /\ ev.name = "AddTodo" /\ ev.tag = "resched" /\ ev.dev = "A"
  /\ edits["A"] = 2
  /\ comp["A"].timer.set /\ comp["A"].timer.data = local["A"]
  /\ HasId(local["A"].todos, NewRecordId("A", 0))
  /\ HasId(local["A"].todos, NewRecordId("A", 1))
  /\ pushes["A"] = <<>>
  /\ ~HasId(rooms["STAR"].todos, NewRecordId("A", 0))

\* C21: a create ends connected exactly when its write succeeded. Then the
\* room holds the snapshot the create was called with under the device id it
\* was called with, the stored session holds that id and the upper-case code
\* with enabled = true, and the baseline latch is set. When the write failed
\* the status is error and the stored session is as it was.
C21_CreateConnectsIffWritten ==
  [][\A d \in Active :
       (op[d].pc = "creating" /\ comp[d].mounted
        /\ ev'.name = "CreateDone" /\ ev'.dev = d)
       => /\ (comp'[d].status = "connected") <=> (ev'.tag = "created")
          /\ ev'.tag = "created" =>
               /\ rooms'[ToUpper(op[d].code)].exists
               /\ DataOf(rooms'[ToUpper(op[d].code)]) = op[d].data
               /\ rooms'[ToUpper(op[d].code)].deviceId = op[d].deviceId
               /\ ls'[d] = [saved |-> TRUE, syncCode |-> ToUpper(op[d].code),
                            deviceId |-> op[d].deviceId, enabled |-> TRUE,
                            lastSyncedAt |-> now]
               /\ comp'[d].hasRemoteBaseline
          /\ ev'.tag # "created" =>
               /\ comp'[d].status = "error"
               /\ ls'[d] = ls[d] /\ rooms' = rooms
               /\ subs'[d] = subs[d]]_vars

\* a create on a device that holds records has just written them to the room
C21_Witness ==
  /\ ev.name = "CreateDone" /\ ev.tag = "created"
  /\ comp[ev.dev].status = "connected" /\ comp[ev.dev].hasRemoteBaseline
  /\ Count(local[ev.dev]) > 0
  /\ DataOf(rooms["STAR"]) = local[ev.dev]
  /\ rooms["STAR"].deviceId = ls[ev.dev].deviceId
  /\ ls[ev.dev].enabled /\ ls[ev.dev].syncCode = "STAR"

\* the identifiers of the records created on device d so far
CreatedOn(d) == {NewRecordId(d, n) : n \in 0..(edits[d] - 1)}

\* C22: a record created on a device that has not reached the room in this
\* session, and that the room does not hold, stays in the device's local
\* collections through every step of the engine (the user's "clear all"
\* aside), so that it is still there when the device reaches the room again.
C22_OfflineRecordIsKept ==
  [][\A d \in Active : \A i \in CreatedOn(d) :
       (/\ comp[d].mounted /\ ~hist[d].read
        /\ HasId(local[d].todos, i)
        /\ ~HasId(RoomAt("STAR").todos, i)
        /\ ~(ev'.name = "ClearAll" /\ ev'.dev = d))
       => HasId(local'[d].todos, i)]_vars

\* C23: a push that fails in transport changes nothing on the device (the
\* stored session with its lastSyncedAt, the collections, the status), and
\* the collections it failed to write reach the room all the same once
\* writes succeed again, unless the user acts in between.
C23_FailedPushIsRetried ==
  /\ [][\A d \in Active :
          (ev'.name = "PushDone" /\ ev'.dev = d /\ ev'.tag = "failed")
          => (ls'[d] = ls[d] /\ local'[d] = local[d] /\ comp'[d] = comp[d])]_vars
  /\ \A a \in 0..MaxUserActions :
       (/\ ev.name = "PushDone" /\ ev.dev = "A" /\ ev.tag = "failed"
        /\ Connected("A") /\ pend["A"] = {}
        /\ Count(local["A"]) > 0
        /\ used.acts = a)
         ~> (WrittenBy("A") \/ used.acts # a)

\* C24: the device id a read returns (the stored one, or the one get-or-create
\* hands out on an empty store) is the same before and after every step: it
\* is generated once and no operation changes it.
C24_DeviceIdNeverChanges ==
  [][\A d \in Active : getDeviceId(d)' = getDeviceId(d)]_vars

\* C25: on enable with a stored code whose room is absent, setupSync attaches
\* its listener all the same and shows connected without writing; the
\* listener's room-missing handler sets the latch and sends the local
\* collections, at most once per session; and, unless the user, a fault or
\* another writer comes in between, the room ends up holding them.
C25_AbsentRoomIsRecreated ==
  /\ [][\A d \in Active :
          /\ (/\ setup[d].pc = "joining" /\ comp[d].mounted
              /\ ls[d].enabled /\ ls[d].syncCode # NoCode
              /\ ev'.name = "SetupJoinDone" /\ ev'.dev = d /\ ev'.tag = "absent")
             => /\ ref'[d] # NoSub /\ ref'[d].code = ls[d].syncCode
                /\ ref'[d] \in subs'[d] /\ ref'[d] \in pend'[d]
                /\ comp'[d].status = "connected"
                /\ pushes'[d] = pushes[d] /\ rooms' = rooms
          /\ (ev'.name = "Deliver" /\ ev'.dev = d /\ ev'.tag = "recreate")
             => /\ comp'[d].hasRemoteBaseline
                /\ Len(pushes'[d]) = Len(pushes[d]) + 1
                /\ pushes'[d][Len(pushes'[d])].kind = "recover"
                /\ pushes'[d][Len(pushes'[d])].data = local[d]
          /\ hist'[d].recreates <= 1]_vars
  /\ \A u \in Budgets :
       (/\ comp["A"].mounted /\ setup["A"] = IdleSetup
        /\ ref["A"] # NoSub /\ ref["A"] \in pend["A"]
        /\ ~rooms["STAR"].exists /\ ~comp["A"].hasRemoteBaseline
        /\ pushes["A"] = <<>> /\ used = u)
         ~> (WrittenBy("A") \/ used # u)

\* the push of the room-missing handler has just recreated the absent room
\* from the records the device holds
C25_Witness ==
  /\ ev.name = "PushDone" /\ ev.tag = "recover" /\ ev.dev = "A"
  /\ hist["A"].missing /\ hist["A"].recreates = 1 /\ ~hist["A"].read
  /\ comp["A"].hasRemoteBaseline /\ comp["A"].status = "connected"
  /\ WrittenBy("A") /\ Count(local["A"]) > 0

\* C26: once "clear all" has emptied the collections of a device that was
\* shown connected, no push of that device that is issued in or after the
\* clear carries empty collections to the room.
C26_ClearNeverEmptiesRoom ==
  [][\A d \in Active :
       (hist'[d].cleared /\ Len(pushes'[d]) > Len(pushes[d]))
       => Count(pushes'[d][Len(pushes'[d])].data) > 0]_vars

\* C27: the status shown to the user follows Disconnected -> Connecting ->
\* Connected: the first render of a session does not show Connected, a mounted
\* component's status becomes Connected only from Connecting, and becomes Error
\* only from Connecting or Connected.
C27_StatusFollowsMachine ==
  [][\A d \in Active :
       /\ (~comp[d].mounted /\ comp'[d].mounted)
            => NewComp(isSyncEnabled(d)).status # "connected"
       /\ (comp[d].mounted /\ comp'[d].mounted /\ comp'[d].status # comp[d].status)
            => /\ comp'[d].status = "connected" => comp[d].status = "connecting"
               /\ comp'[d].status = "error"
                    => comp[d].status \in {"connecting", "connected"}]_vars

\* every todo of collection s is in collection t
HoldsTodosOf(t, s) == \A k \in 1..Len(s.todos) : HasId(t.todos, s.todos[k].id)

\* C28: with both devices connected to one room, when device A has made an edit
\* whose push still waits on the debounce timer, and a write of the other
\* device that A has not seen yet (made from a snapshot without A's edit) waits
\* at A's listener, then the room and device A come to hold A's new record
\* together with the other device's records - unless a further user action or
\* environment event intervenes.
C28_ConcurrentEditsBothKept ==
  \A u \in Budgets :
    (/\ Connected("A") /\ comp["A"].timer.set /\ edits["A"] = 1
     /\ local["A"].todos # <<>> /\ Head(local["A"].todos).id = NewRecordId("A", 0)
     /\ Tail(local["A"].todos) # local[Other].todos
     /\ WrittenByOther /\ ref["A"] \in pend["A"]
     /\ used = u)
      ~> (\/ /\ HasId(RoomAt("STAR").todos, NewRecordId("A", 0))
             /\ HoldsTodosOf(RoomAt("STAR"), local[Other])
             /\ HasId(local["A"].todos, NewRecordId("A", 0))
             /\ HoldsTodosOf(local["A"], local[Other])
          \/ used # u)

\* identifiers of the records a device can create
OwnIds(d) == {NewRecordId(d, n) : n \in 0..(MaxEdits - 1)}

\* C29: once pushing is allowed again (device A is connected, the connect phase
\* is over, the latch is set, the remote-update window has passed and nothing
\* waits at the listener), a record that A created in this session and that
\* the room does not hold yet - its edit fell into a suppression - is written to
\* the room, without a further user action; no fault, deletion or write of the
\* other device has occurred or occurs.
C29_SuppressedEditIsPushed ==
  \A a \in 0..MaxUserActions : \A i \in OwnIds("A") :
    (/\ Connected("A") /\ ~comp["A"].isRemoteUpdate /\ pend["A"] = {}
     /\ i \in CreatedOn("A") /\ HasId(local["A"].todos, i)
     /\ ~HasId(RoomAt("STAR").todos, i)
     /\ used = [acts |-> a, env |-> 0])
      ~> (HasId(RoomAt("STAR").todos, i) \/ used # [acts |-> a, env |-> 0])

\* C30: a device holds at most one live room subscription; Disable (disconnect
\* or clear-all) and teardown (unmount) leave no subscription open; and no
\* subscription is opened on a device whose component has been torn down.
C30_OneSubscriptionClosedOnExit ==
  [][\A d \in Active :
       /\ Cardinality(subs'[d]) <= 1
       /\ (\/ ev'.name \in {"Disconnect", "ClearAll"} /\ ev'.dev = d
           \/ comp[d].mounted /\ ~comp'[d].mounted)
            => subs'[d] = {}
       /\ (~comp[d].mounted /\ ~comp'[d].mounted) => subs'[d] \subseteq subs[d]]_vars

====
